---- MODULE Spec2Model ----
(***************************************************************************)
(* The JSON-RPC request orchestrator of the react-dapp-v2 example          *)
(* (src/dapps/react-dapp-v2/src/contexts/JsonRpcContext.tsx): the          *)
(* dispatcher _createJsonRpcRequestHandler, ping, and the per-namespace    *)
(* operations it wraps, as a state machine over the provider's React       *)
(* state (pending, result) and the invocations in progress.                *)
(*                                                                         *)
(* JavaScript runs every continuation to completion: from an invocation's  *)
(* entry, or from the resolution of the promise it awaits, up to its next  *)
(* await.  The model follows that: an invocation whose pc is one of        *)
(* SyncPcs holds the thread and no other step can be taken until it        *)
(* reaches an await or returns; each setState call is a step of its own,   *)
(* so that the order of the writes is observable.                          *)
(***************************************************************************)
EXTENDS Integers, Sequences, FiniteSets, TLC

VARIABLES
  client,    \* useWalletConnectClient().client: "undefined" or "ready"
  session,   \* useWalletConnectClient().session: "undefined" or "connected"
  pending,   \* useState(false): isRpcRequestPending
  result,    \* useState<IFormattedRpcResponse | null>(): rpcResult
  rpc,       \* the handler the caller drives in this behaviour: a namespace
             \* operation, or ping
  calls,     \* the invocations (of rpc or of ping) in progress
  ended,     \* history: what the step just taken returned to a caller, if anything
  raced,     \* history: an invocation started while another was in progress
             \*          and the provider has not been quiescent since
  isTestnet, \* useState(getLocalStorageTestnetFlag()): isTestnet
  codec,     \* a value on its way through stringifyExtendedJson and
             \* parseExtendedJson (used by ExtendedJsonSpec only)
  chain      \* a call of getChainMetadata of chains/bch.ts or chains/xmr.ts
             \* (used by ChainMetadataSpec only)

vars ==
  <<client, session, pending, result, rpc, calls, ended, raced, isTestnet, codec, chain>>

----------------------------------------------------------------------------
(* Bounds *)

\* invocations that may be in progress at the same time
MaxCalls == 2
\* gasPrice and gasLimit of a test transaction range over 1..MaxGas
MaxGas == 2

Calls == 1..MaxCalls

----------------------------------------------------------------------------
(* JavaScript values *)

Undefined == "undefined"

\* An Error object: String(e) is "<name>: <message>"
Err(name, message) == [kind |-> "Error", name |-> name, message |-> message]
\* A string used as a thrown / rejected value
Str(s) == [kind |-> "string", name |-> "", message |-> s]
NoError == [kind |-> "none", name |-> "", message |-> ""]

\* e.message (undefined on a string)
MessageOf(e) == IF e.kind = "Error" THEN e.message ELSE Undefined

\* String(e)
StringOf(e) == IF e.kind = "Error" THEN e.name \o ": " \o e.message ELSE e.message

\* new Error(x) for a thrown value x: the message is String(x)
NewErrorOf(e) == Err("Error", StringOf(e))

\* new Error(x.message): new Error(undefined) has the empty message
NewErrorOfMessage(e) ==
  Err("Error", IF MessageOf(e) = Undefined THEN "" ELSE MessageOf(e))

\* err?.message ?? err
MessageOrSelf(e) == IF MessageOf(e) = Undefined THEN e.message ELSE MessageOf(e)

\* the TypeError of reading a property of null or undefined
TypeErr == Err("TypeError", "Cannot read properties of null")

----------------------------------------------------------------------------
(* The result slot: IFormattedRpcResponse | null | undefined *)

Unset == [tag |-> "undefined", method |-> Undefined, address |-> Undefined,
          valid |-> FALSE, result |-> Undefined]
Null == [tag |-> "null", method |-> Undefined, address |-> Undefined,
         valid |-> FALSE, result |-> Undefined]
Formatted(method, address, valid, res) ==
  [tag |-> "record", method |-> method, address |-> address,
   valid |-> valid, result |-> res]

----------------------------------------------------------------------------
(* The namespace operations: one entry per callback handed to              *)
(* _createJsonRpcRequestHandler.                                           *)
(*   method  the RPC method sent to the peer (the constant's name)         *)
(*   label   the method the operation publishes                            *)
(*   pre     what runs before the request is built:                        *)
(*             "account"  accounts.find, then await formatTestTransaction  *)
(*             "keys"     the solanaPublicKeys check                       *)
(*             "recent"   that check, then await getRecentBlockhash        *)
(*             "address"  new Address(address), which throws on a bad one  *)
(*             "trigger"  await triggerSmartContract                       *)
(*   funds   the balance admission check before the request                *)
(*   wrap    the operation's own catch around the request:                 *)
(*             "none", "error" (throw new Error(error)),                   *)
(*             "message" (throw new Error(error.message))                  *)
(*   post    what runs once the request has resolved:                      *)
(*             "ack"      valid: true                                      *)
(*             "verify"   a synchronous verifier of the signature          *)
(*             "recover"  recoverTransaction or verifySignature, by the    *)
(*                        chain's reference                                *)
(*             "batch"    the verifier over the three transactions         *)
(*             "oracle"   rpcProvidersByChainId lookup, await verifySignature *)
(*             "chain"    chainData lookup, await verify...Signature       *)
(*             "ready"    await cryptoWaitReady, then signatureVerify      *)
(*   fmt     how the reply becomes the result string:                      *)
(*             "self"  the reply itself     "field"  a property of it      *)
(*             "json"  JSON.stringify of it "parsed" parseExtendedJson(..).toString() *)
(***************************************************************************)
Op(ns, method, label, pre, funds, wrap, post, fmt) ==
  [ns |-> ns, method |-> method, label |-> label, pre |-> pre, funds |-> funds,
   wrap |-> wrap, post |-> post, fmt |-> fmt]

Plain(ns, method, wrap, post, fmt) == Op(ns, method, method, "none", FALSE, wrap, post, fmt)

ETH_SIGN == "DEFAULT_EIP155_METHODS.ETH_SIGN"

ethereumRpc ==
  [testSendTransaction |->
     Op("eip155", "DEFAULT_EIP155_METHODS.ETH_SEND_TRANSACTION",
        "DEFAULT_EIP155_METHODS.ETH_SEND_TRANSACTION", "account", TRUE, "none", "ack", "self"),
   testSignTransaction |->
     Op("eip155", "DEFAULT_EIP155_METHODS.ETH_SIGN_TRANSACTION",
        "DEFAULT_EIP155_METHODS.ETH_SIGN_TRANSACTION", "account", FALSE, "none", "recover", "self"),
   testSignPersonalMessage |->
     Plain("eip155", "DEFAULT_EIP155_METHODS.PERSONAL_SIGN", "none", "oracle", "self"),
   testEthSign |->
     Op("eip155", ETH_SIGN, ETH_SIGN \o " (standard)", "none", FALSE, "none", "oracle", "self"),
   testSignTypedData |->
     Plain("eip155", "DEFAULT_EIP155_METHODS.ETH_SIGN_TYPED_DATA", "none", "oracle", "self")]

cosmosRpc ==
  [testSignDirect |->
     Plain("cosmos", "DEFAULT_COSMOS_METHODS.COSMOS_SIGN_DIRECT", "none", "chain", "field"),
   testSignAmino |->
     Plain("cosmos", "DEFAULT_COSMOS_METHODS.COSMOS_SIGN_AMINO", "none", "chain", "field")]

solanaRpc ==
  [testSignTransaction |->
     Op("solana", "DEFAULT_SOLANA_METHODS.SOL_SIGN_TRANSACTION",
        "DEFAULT_SOLANA_METHODS.SOL_SIGN_TRANSACTION", "recent", FALSE, "error", "verify", "field"),
   testSignMessage |->
     Op("solana", "DEFAULT_SOLANA_METHODS.SOL_SIGN_MESSAGE",
        "DEFAULT_SOLANA_METHODS.SOL_SIGN_MESSAGE", "keys", FALSE, "error", "verify", "field")]

polkadotRpc ==
  [testSignTransaction |->
     Plain("polkadot", "DEFAULT_POLKADOT_METHODS.POLKADOT_SIGN_TRANSACTION", "error", "ack", "field"),
   testSignMessage |->
     Plain("polkadot", "DEFAULT_POLKADOT_METHODS.POLKADOT_SIGN_MESSAGE", "error", "ready", "field")]

nearRpc ==
  [testSignAndSendTransaction |->
     Plain("near", "DEFAULT_NEAR_METHODS.NEAR_SIGN_AND_SEND_TRANSACTION", "none", "ack", "field"),
   testSignAndSendTransactions |->
     Plain("near", "DEFAULT_NEAR_METHODS.NEAR_SIGN_AND_SEND_TRANSACTIONS", "none", "ack", "field")]

elrondRpc ==
  [testSignTransaction |->
     Op("elrond", "DEFAULT_ELROND_METHODS.ELROND_SIGN_TRANSACTION",
        "DEFAULT_ELROND_METHODS.ELROND_SIGN_TRANSACTION", "address", FALSE, "error", "verify", "field"),
   testSignTransactions |->
     Op("elrond", "DEFAULT_ELROND_METHODS.ELROND_SIGN_TRANSACTIONS",
        "DEFAULT_ELROND_METHODS.ELROND_SIGN_TRANSACTIONS", "address", FALSE, "error", "batch", "field"),
   testSignMessage |->
     Op("elrond", "DEFAULT_ELROND_METHODS.ELROND_SIGN_MESSAGE",
        "DEFAULT_ELROND_METHODS.ELROND_SIGN_MESSAGE", "address", FALSE, "error", "verify", "field")]

tronRpc ==
  [testSignTransaction |->
     Op("tron", "DEFAULT_TRON_METHODS.TRON_SIGN_TRANSACTION",
        "DEFAULT_TRON_METHODS.TRON_SIGN_TRANSACTION", "trigger", FALSE, "error", "ack", "field"),
   testSignMessage |->
     Plain("tron", "DEFAULT_TRON_METHODS.TRON_SIGN_MESSAGE", "error", "ack", "field")]

tezosRpc ==
  [testGetAccounts |->
     Plain("tezos", "DEFAULT_TEZOS_METHODS.TEZOS_GET_ACCOUNTS", "message", "ack", "json"),
   testSignTransaction |->
     Plain("tezos", "DEFAULT_TEZOS_METHODS.TEZOS_SEND", "message", "ack", "field"),
   testSignMessage |->
     Plain("tezos", "DEFAULT_TEZOS_METHODS.TEZOS_SIGN", "message", "ack", "field")]

bchRpc ==
  [testGetAddresses |->
     Plain("bch", "DEFAULT_BCH_METHODS.BCH_GET_ADDRESSES", "message", "ack", "json"),
   testSignTransaction |->
     Plain("bch", "DEFAULT_BCH_METHODS.BCH_SIGN_TRANSACTION", "message", "ack", "field"),
   testSignMessage |->
     Plain("bch", "DEFAULT_BCH_METHODS.BCH_SIGN_MESSAGE", "message", "ack", "self")]

xmrRpc ==
  [testGetAddresses |->
     Plain("xmr", "DEFAULT_XMR_METHODS.XMR_GET_ADDRESSES", "message", "ack", "json"),
   testSignTransaction |->
     Plain("xmr", "DEFAULT_XMR_METHODS.XMR_SIGN_TRANSACTION", "message", "ack", "field"),
   testSignMessage |->
     Plain("xmr", "DEFAULT_XMR_METHODS.XMR_SIGN_MESSAGE", "message", "ack", "self"),
   testGetBalance |->
     Plain("xmr", "DEFAULT_XMR_METHODS.XMR_GET_BALANCE", "message", "ack", "parsed"),
   testGetUnlockedBalance |->
     Plain("xmr", "DEFAULT_XMR_METHODS.XMR_GET_UNLOCKED_BALANCE", "message", "ack", "parsed"),
   testGetBalances |->
     Plain("xmr", "DEFAULT_XMR_METHODS.XMR_GET_BALANCES", "message", "ack", "json")]

\* the tables the provider hands out (JsonRpcContext.Provider value)
Tables ==
  [ethereumRpc |-> ethereumRpc, cosmosRpc |-> cosmosRpc, solanaRpc |-> solanaRpc,
   polkadotRpc |-> polkadotRpc, nearRpc |-> nearRpc, elrondRpc |-> elrondRpc,
   tronRpc |-> tronRpc, tezosRpc |-> tezosRpc, bchRpc |-> bchRpc, xmrRpc |-> xmrRpc]

\* every dispatched operation, as <<table, name>>
Operations == UNION {{<<t, n>> : n \in DOMAIN Tables[t]} : t \in DOMAIN Tables}

OpOf(o) == Tables[o[1]][o[2]]

PING == "ping"

PingOp == <<"provider", PING>>

----------------------------------------------------------------------------
(* What the provider reads from its collaborators *)

\* chainId is "<namespace>:<reference>", kept split: chainId.split(":")
ChainIds(ns) ==
  CASE ns = "eip155" -> {<<ns, "1">>, <<ns, "42220">>, <<ns, "44787">>, <<ns, "999">>}
    [] ns = "cosmos" -> {<<ns, "cosmoshub-4">>, <<ns, "unlisted">>}
    [] OTHER -> {<<ns, "mainnet">>}

\* the chains an operation is driven on: those its code tells apart (the two
\* Celo references for a verifier, a reference without provider or chain data
\* for a lookup) and one it does not
Chains(o) ==
  CASE o.ns = "eip155" /\ o.post = "recover" ->
         {<<o.ns, "1">>, <<o.ns, "42220">>, <<o.ns, "44787">>}
    [] o.ns = "eip155" /\ o.post = "oracle" -> {<<o.ns, "1">>, <<o.ns, "999">>}
    [] o.ns = "eip155" -> {<<o.ns, "1">>}
    [] OTHER -> ChainIds(o.ns)

Caip(chainId) == chainId[1] \o ":" \o chainId[2]

Addresses == {"addrA", "addrB"}

\* the addresses an operation is driven with: both where its code looks the
\* address up among the accounts, one where it only passes the address on
AddressesOf(o) == IF o.pre = "account" THEN Addresses ELSE {"addrA"}

\* `${chainId}:${address}`
CaipAccount(chainId, address) == Caip(chainId) \o ":" \o address

\* accounts of the session: addrA on every chain, addrB on none
accounts ==
  {CaipAccount(ch, "addrA") :
     ch \in UNION {ChainIds(Tables[t][n].ns) : <<t, n>> \in Operations}}

\* rpcProvidersByChainId: the references with an RPC endpoint
rpcProvidersByChainId == {"1", "42220", "44787"}

\* chainData[namespace][reference] of useChainData
chainData == {<<"cosmos", "cosmoshub-4">>}

\* balances[account][0].balance: a decimal string, or absent/empty
Balances ==
  {[known |-> FALSE, amount |-> 0]} \cup
  {[known |-> TRUE, amount |-> n] : n \in 0 .. MaxGas * MaxGas}

\* the transaction formatTestTransaction resolves with
Transactions == [gasPrice : 1..MaxGas, gasLimit : 1..MaxGas]

\* what the peer replies to a request: a well-formed artifact, an object
\* without the field the operation reads, or null
Artifact == "0xartifact"
EmptyReply == "{}"
NullReply == "null"
NoReply == ""

\* a serialized transaction as a peer may sign it: by the account, by the
\* account written in upper case, by another account, or with a signature
\* no key produced
SignedBy(signer) == "0xsigned:" \o signer
Unsigned == "0xunsigned"
Signers == {"addrA", "ADDRA", "addrB"}
SignedTxs == {SignedBy(signer) : signer \in Signers} \cup {Unsigned}

\* recoverTransaction(signedTx)[1]
recoverTransaction(signedTx) == CHOOSE signer \in Signers : signedTx = SignedBy(signer)

\* EthTransaction.fromSerializedTx(signedTx).verifySignature(): the signature
\* is one some key produced; the call is given no address
EthVerifySignature(signedTx) == signedTx # Unsigned

\* String.prototype.toLowerCase
toLowerCase(str) ==
  CASE str \in {"addrA", "ADDRA"} -> "addra"
    [] str = "addrB" -> "addrb"
    [] OTHER -> str

\* [testTransaction, testTransaction2, testTransaction3]
BatchSize == 3

\* the signature of the account over the transaction at an index, and one
\* that verifies for none
SignatureOf(index) == CASE index = 1 -> "sig1" [] index = 2 -> "sig2" [] OTHER -> "sig3"
BadSignature == "bad"

\* result.signatures as a peer may return it: per transaction its signature
\* or a bad one, the signatures in another order, or fewer than asked for
Batches ==
  {b \in [1..BatchSize -> {SignatureOf(i) : i \in 1..BatchSize} \cup {BadSignature}] :
     \A i \in 1..BatchSize : b[i] \in {SignatureOf(i), BadSignature}}
  \cup {<<SignatureOf(2), SignatureOf(1), SignatureOf(3)>>}
  \cup {<<SignatureOf(1), SignatureOf(2)>>}

\* resultSignatures.join(", ")
RECURSIVE Join(_)
Join(signatures) ==
  IF Len(signatures) = 0 THEN ""
  ELSE IF Len(signatures) = 1 THEN signatures[1]
  ELSE signatures[1] \o ", " \o Join(Tail(signatures))

\* the reply of a batch is kept as its joined form
SignaturesOf(v) == CHOOSE b \in Batches : Join(b) = v

\* verifier.verify(transaction) once signatures[index] has been applied to
\* the transaction at index
Verify(index, signature) == signature = SignatureOf(index)

\* variant: the reduction drops the accumulator
RECURSIVE ReduceWithoutAcc(_, _, _)
ReduceWithoutAcc(signatures, index, acc) ==
  IF index > BatchSize THEN acc
  ELSE ReduceWithoutAcc(signatures, index + 1, Verify(index, signatures[index]))

\* [..].reduce((acc, current, index) => acc && verifier.verify(current), true)
RECURSIVE Reduce(_, _, _)
Reduce(signatures, index, acc) ==
  IF index > BatchSize THEN acc
  ELSE Reduce(signatures, index + 1, acc /\ Verify(index, signatures[index]))

Replies(o) ==
  CASE o.post = "recover" -> SignedTxs \cup {NullReply}
    [] o.post = "batch" -> {Join(b) : b \in Batches} \cup {NullReply}
    [] o.post = "ack" -> {Artifact, EmptyReply, NullReply}
    [] OTHER -> {Artifact, NullReply}

\* what a promise of a collaborator rejects with
Rejections == {Err("Error", "User rejected"), Str("request timed out")}

----------------------------------------------------------------------------
(* Extended JSON: stringifyExtendedJson and parseExtendedJson of ../helpers. *)
(* A structure is a record of values, a JSON document a record of JSON      *)
(* numbers and strings.                                                     *)

\* a value: a bigint, a Uint8Array, a number or a string, with its decimal
\* digits, its hex digits or its text
Leaf(type, text) == [type |-> type, text |-> text]
NoLeaf == Leaf("undefined", "")

\* amounts as BigInt(...) holds them: among them 2^53 + 1, which no double
\* holds, and 2^64
BigInts == {"0", "1000000000000", "9007199254740993", "18446744073709551616"}
\* byte buffers, by their hex digits
Buffers == {"", "00ff", "deadbeef"}
\* plain numbers and plain strings, some with the digits of an amount or of
\* a buffer
Numbers == {"0", "1000000000000"}
Strings == {"Sign this transaction", "1000000000000", "deadbeef"}

\* the structures handed to stringifyExtendedJson
Structures ==
  [amount : {Leaf("bigint", d) : d \in BigInts},
   data : {Leaf("Uint8Array", h) : h \in Buffers},
   accountIndex : {Leaf("number", n) : n \in Numbers},
   userPrompt : {Leaf("string", t) : t \in Strings}]

NoStructure ==
  [amount |-> NoLeaf, data |-> NoLeaf, accountIndex |-> NoLeaf, userPrompt |-> NoLeaf]

\* the strings that carry an integer and a byte buffer
BigIntTag(digits) == "<bigint: " \o digits \o "n>"
Uint8ArrayTag(hex) == "<Uint8Array: 0x" \o hex \o ">"

\* variant: an integer is written as a JSON number, that is as the double
\* nearest to it
ReplacerViaNumber(value) ==
  CASE value.type = "bigint" ->
         Leaf("number", IF value.text = "9007199254740993" THEN "9007199254740992"
                        ELSE value.text)
    [] value.type = "Uint8Array" -> Leaf("string", Uint8ArrayTag(value.text))
    [] OTHER -> value

\* what stringifyExtendedJson writes for a value: an integer and a byte
\* buffer as tagged strings, anything else as JSON has it
Replacer(value) ==
  CASE value.type = "bigint" -> Leaf("string", BigIntTag(value.text))
    [] value.type = "Uint8Array" -> Leaf("string", Uint8ArrayTag(value.text))
    [] OTHER -> value

\* what parseExtendedJson reads from a JSON value: a tagged string is the
\* integer or the byte buffer it carries
Reviver(value) ==
  IF value.type = "string" /\ \E d \in BigInts : value.text = BigIntTag(d)
  THEN Leaf("bigint", CHOOSE d \in BigInts : value.text = BigIntTag(d))
  ELSE IF value.type = "string" /\ \E h \in Buffers : value.text = Uint8ArrayTag(h)
  THEN Leaf("Uint8Array", CHOOSE h \in Buffers : value.text = Uint8ArrayTag(h))
  ELSE value

stringifyExtendedJson(value) == [f \in DOMAIN value |-> Replacer(value[f])]

parseExtendedJson(json) == [f \in DOMAIN json |-> Reviver(json[f])]

\* no value is on its way through the two functions
NoCodec == [stage |-> "none", value |-> NoStructure, json |-> NoStructure,
            back |-> NoStructure]

----------------------------------------------------------------------------
(* The chain modules chains/bch.ts and chains/xmr.ts: getChainMetadata.    *)
(* A chainId is kept as its segments, chainId.split(":").                  *)

\* what a property read gives: an entry of a metadata table, a member of
\* Object.prototype, or undefined
Entry(logo, rgb) == [type |-> "ChainMetadata", logo |-> logo, rgb |-> rgb]
Inherited(type) == [type |-> type, logo |-> Undefined, rgb |-> Undefined]
NoEntry == Inherited("undefined")

BchMetadata ==
  [bitcoincash |->
     Entry("https://assets.coingecko.com/coins/images/780/small/bitcoin-cash-circle.png",
           "27, 31, 53"),
   bchtest |->
     Entry("https://assets.coingecko.com/coins/images/780/small/bitcoin-cash-circle.png",
           "27, 31, 53")]

XmrMetadata ==
  [mainnet |-> Entry("https://monujo.cash/images/xmr-icon.png", "224, 111, 55"),
   testnet |-> Entry("https://monujo.cash/images/xmr-icon.png", "224, 111, 55")]

\* what an object literal inherits from Object.prototype, by typeof
ObjectPrototype ==
  [constructor |-> "function", toString |-> "function", valueOf |-> "function",
   hasOwnProperty |-> "function", __proto__ |-> "object"]

\* table[key] of an object literal: an own property, else an inherited one,
\* else undefined; the key undefined reads the property "undefined"
Get(table, key) ==
  IF key \in DOMAIN table THEN table[key]
  ELSE IF key \in DOMAIN ObjectPrototype THEN Inherited(ObjectPrototype[key])
  ELSE NoEntry

\* the chainIds getChainMetadata is called with: of this namespace or of
\* another, with a reference of either table, of none, empty, or the name
\* of a member of Object.prototype, without reference, and with a third
\* segment
Namespaces == {"bch", "xmr", "eip155", ""}
References ==
  {"bitcoincash", "bchtest", "mainnet", "testnet", "unlisted", "", "constructor",
   "toString", "__proto__"}
SegmentedChainIds ==
  {<<ns>> : ns \in Namespaces \cup {"bitcoincash", "mainnet"}}
  \cup {<<ns, ref>> : ns \in Namespaces, ref \in References}
  \cup {<<ns, ref, "extra">> : ns \in Namespaces, ref \in References}

\* the chainId as written: the segments joined by ":"
RECURSIVE Unsplit(_)
Unsplit(segments) ==
  IF Len(segments) = 1 THEN segments[1]
  ELSE segments[1] \o ":" \o Unsplit(Tail(segments))

\* chainId.split(":")[1]
ReferenceOf(chainId) == IF Len(chainId) >= 2 THEN chainId[2] ELSE Undefined

MetadataReturned(metadata) == [kind |-> "returned", value |-> metadata, error |-> NoError]
MetadataThrew(err) == [kind |-> "threw", value |-> NoEntry, error |-> err]
NoMetadata == [kind |-> "none", value |-> NoEntry, error |-> NoError]

\* getChainMetadata(chainId) over the table of its module
getChainMetadata(table, chainId) ==
  LET reference == ReferenceOf(chainId)
      metadata == Get(table, reference)
  IN  IF metadata.type = "undefined"
      THEN MetadataThrew(Err("Error", "No chain metadata found for chainId: "
                                         \o Unsplit(chainId)))
      ELSE MetadataReturned(metadata)

\* no call of getChainMetadata is being looked at
NoLookup == [stage |-> "none", module |-> "", chainId |-> <<"">>, out |-> NoMetadata]

----------------------------------------------------------------------------
(* Invocations *)


NoOutcome == [kind |-> "none", value |-> Unset, error |-> NoError]
Returned(v) == [kind |-> "returned", value |-> v, error |-> NoError]
Threw(e) == [kind |-> "threw", value |-> Unset, error |-> e]

NoChain == <<"", "">>

\* the payload of a request: the method and the params built for it
Payload(o) == [method |-> o.method, params |-> "params"]
NoPayload == [method |-> "", params |-> ""]

\* Apart from pc, op, chainId, address and out the fields are history:
\*   requests  the requests the invocation has issued
\*   balance   whether balances[account][0].balance held a value
\*   funds     how the balance it read compared with the cost
\*   built     the payload it has built
\*   sent      the payload of its request
\*   reply     what the peer replied
\*   rejected  what the channel rejected its request with
\*   failed    the error of the account or endpoint lookup that failed
\*   route     the routine that checked the signed transaction
\*   checked   the payload handed to the verifier
\*   verdict   what the verifier said
\*   pinged    how client.ping settled
\*   wrote     its writes to the result slot
IdleCall ==
  [pc |-> "idle", op |-> <<"", "">>, chainId |-> NoChain, address |-> "",
   requests |-> 0, balance |-> "n/a", funds |-> "n/a", built |-> NoPayload,
   sent |-> NoPayload, reply |-> NoReply, rejected |-> NoError, failed |-> NoError,
   route |-> "n/a", checked |-> NoPayload, verdict |-> "n/a", pinged |-> "n/a",
   out |-> NoOutcome, wrote |-> 0]

\* positions at which the invocation holds the thread (it is between two awaits)
SyncPcs == {"entered", "settled", "published"}
AwaitPcs == {"awaitPre", "awaitRequest", "awaitVerify", "awaitPing"}

Running == \E c \in Calls : calls[c].pc \in SyncPcs
Active(c) == calls[c].pc # "idle"

\* how a handler returns to its caller: its promise resolves, or rejects
\* with the error thrown before the try
NotEnded == [how |-> "none", error |-> NoError]
Resolved == [how |-> "resolved", error |-> NoError]
Rejected(e) == [how |-> "rejected", error |-> e]

----------------------------------------------------------------------------
(* The dispatcher's and the operations' pure parts *)

\* variant: only the client is checked
PreconditionClientOnly(cl, se) ==
  IF cl = "undefined" THEN Err("Error", "WalletConnect is not initialized")
  ELSE NoError

\* _createJsonRpcRequestHandler and ping: the two checks before the try
Precondition(cl, se) ==
  IF cl = "undefined" THEN Err("Error", "WalletConnect is not initialized")
  ELSE IF se = "undefined" THEN Err("Error", "Session is not connected")
  ELSE NoError

\* variant: the catch publishes String(err)
CatchResultOfString(address, err) == Formatted(Undefined, address, FALSE, StringOf(err))

\* variant: the catch publishes no address
CatchResultWithoutAddress(address, err) ==
  Formatted(Undefined, Undefined, FALSE, MessageOrSelf(err))

\* the dispatcher's catch: setResult({address, valid: false, result: err?.message ?? err})
CatchResult(address, err) == Formatted(Undefined, address, FALSE, MessageOrSelf(err))

\* variant: the catch leaves the slot as it is
PublishedOnSuccess(address, out) ==
  IF out.kind = "returned" THEN out.value ELSE result

\* what the dispatcher hands to setResult for an outcome of rpcRequest
Published(address, out) ==
  IF out.kind = "returned" THEN out.value ELSE CatchResult(address, out.error)

\* ping's setResult: the inner try always yields a verdict; the outer catch
\* publishes null
PingPublished(out) == IF out.kind = "returned" THEN out.value ELSE Null

\* variant: valid starts out true and the inner catch leaves it as it is
PingResultNotReset(valid) == Formatted(PING, Undefined, TRUE, "Ping succeeded")

\* ping's record: {method: "ping", valid, result: valid ? ... : ...}
PingResult(valid) ==
  Formatted(PING, Undefined, valid, IF valid THEN "Ping succeeded" ELSE "Ping failed")

\* the operation's own catch around the request and what follows it
Wrap(o, e) ==
  CASE o.wrap = "error" -> NewErrorOf(e)
    [] o.wrap = "message" -> NewErrorOfMessage(e)
    [] OTHER -> e

\* BigNumber.from(balances[account][0].balance || "0")
BigNumberFrom(b) == IF b.known THEN b.amount ELSE 0

\* variant: the balance is compared with the gas price alone
InsufficientFundsByGasPrice(b, tx) == BigNumberFrom(b) < tx.gasPrice

\* variant: balance.lte(...)
InsufficientFundsOrEqual(b, tx) == BigNumberFrom(b) <= tx.gasPrice * tx.gasLimit

\* balance.lt(BigNumber.from(tx.gasPrice).mul(tx.gasLimit))
InsufficientFunds(b, tx) == BigNumberFrom(b) < tx.gasPrice * tx.gasLimit

InsufficientResult(o, address) ==
  Formatted(o.label, address, FALSE, "Insufficient funds for intrinsic transaction cost")

\* reading the reply for the result string throws on null
ReadThrows(o, v) == v = NullReply /\ o.fmt \in {"field", "parsed"}

\* the result string of a reply: a field missing from the reply reads as
\* undefined
ResultString(o, v) ==
  CASE o.fmt = "json" -> "json(" \o v \o ")"
    [] o.fmt = "field" /\ v = EmptyReply -> Undefined
    [] o.fmt = "parsed" /\ v = EmptyReply -> "[object Object]"
    [] OTHER -> v

\* variant: an artifact that does not verify is reported as an error
SuccessOrError(o, address, valid, v) ==
  IF valid THEN Formatted(o.label, address, valid, ResultString(o, v))
  ELSE Formatted(Undefined, address, FALSE, "Invalid signature")

\* the record an operation returns
Success(o, address, valid, v) == Formatted(o.label, address, valid, ResultString(o, v))

\* the lookup an operation makes after the request has resolved
LookupError(o, chainId) ==
  CASE o.post = "oracle" /\ chainId[2] \notin rpcProvidersByChainId ->
         Err("Error", "Missing rpcProvider definition for chainId: " \o Caip(chainId))
    [] o.post = "chain" /\ chainId \notin chainData ->
         Err("Error", "Missing chain data for chainId: " \o Caip(chainId))
    [] OTHER -> NoError

\* accounts.find(...) === undefined
AccountError(chainId, address) ==
  IF CaipAccount(chainId, address) \in accounts THEN NoError
  ELSE Err("Error", "Account for " \o CaipAccount(chainId, address) \o " not found")

CELO_ALFAJORES_CHAIN_ID == 44787
CELO_MAINNET_CHAIN_ID == 42220

\* variant: only the Alfajores reference takes the other routine
RoutineAlfajoresOnly(reference) ==
  IF reference = ToString(CELO_ALFAJORES_CHAIN_ID)
  THEN "recoverTransaction"
  ELSE "verifySignature"

\* testSignTransaction: the routine that checks the signed transaction
Routine(reference) ==
  IF \/ reference = ToString(CELO_ALFAJORES_CHAIN_ID)
     \/ reference = ToString(CELO_MAINNET_CHAIN_ID)
  THEN "recoverTransaction"
  ELSE "verifySignature"

\* signer.toLowerCase() === address.toLowerCase()
SignerMatches(signedTx, address) ==
  toLowerCase(recoverTransaction(signedTx)) = toLowerCase(address)

----------------------------------------------------------------------------
(* State changes of one invocation *)

\* rpcRequest returned or threw: control is back in the dispatcher
Settle(c, out) ==
  calls' = [calls EXCEPT ![c] = [@ EXCEPT !.pc = "settled", !.out = out]]

\* client.ping has settled: control is back in ping
SettlePing(c, how, out) ==
  calls' = [calls EXCEPT ![c] = [@ EXCEPT !.pc = "settled", !.pinged = how, !.out = out]]

\* an account or endpoint lookup before the request failed
SettleLookup(c, err) ==
  calls' = [calls EXCEPT ![c] =
              [@ EXCEPT !.pc = "settled", !.failed = err, !.out = Threw(err)]]

\* variant: the request is issued with the payload as built so far, and the
\* payload is completed afterwards
SendRequestUnbuilt(c, funds, payload) ==
  calls' = [calls EXCEPT ![c] =
              [@ EXCEPT !.pc = "awaitRequest", !.requests = @ + 1, !.funds = funds,
                        !.built = payload, !.sent = calls[c].built]]

\* the payload is complete and client.request(...) is called with it: the
\* invocation awaits the peer's reply
SendRequest(c, funds, payload) ==
  calls' = [calls EXCEPT ![c] =
              [@ EXCEPT !.pc = "awaitRequest", !.requests = @ + 1, !.funds = funds,
                        !.built = payload, !.sent = payload]]

Await(c, pc, v) ==
  calls' = [calls EXCEPT ![c] = [@ EXCEPT !.pc = pc, !.reply = v]]

\* the verifier is called with the payload and awaited
AwaitVerify(c, v, payload) ==
  calls' = [calls EXCEPT ![c] =
              [@ EXCEPT !.pc = "awaitVerify", !.reply = v, !.checked = payload]]

\* what the code after the reply leaves behind (history)
NoHistory == [route |-> "n/a", checked |-> NoPayload, verdict |-> "n/a", failed |-> NoError]
Verdict(valid) == IF valid THEN "true" ELSE "false"

\* the reply v has been handled and rpcRequest returns or throws
Conclude(c, v, h, out) ==
  calls' = [calls EXCEPT ![c] =
              [@ EXCEPT !.pc = "settled", !.reply = v, !.route = h.route,
                        !.checked = h.checked, !.verdict = h.verdict,
                        !.failed = h.failed, !.out = out]]

\* how a balance compares with the intrinsic cost (history)
Compare(b, tx) ==
  LET bal == IF b.known THEN b.amount ELSE 0
      cost == tx.gasPrice * tx.gasLimit
  IN  IF bal < cost THEN "lt" ELSE IF bal = cost THEN "eq" ELSE "gt"

\* whether the balance read held a value (history)
Known(b) == IF b.known THEN "known" ELSE "absent"

\* the balance does not cover the cost: the operation returns without a request
ShortCircuit(c, b, tx) ==
  calls' = [calls EXCEPT ![c] =
              [@ EXCEPT !.pc = "settled", !.balance = Known(b), !.funds = Compare(b, tx),
                        !.built = Payload(OpOf(calls[c].op)),
                        !.out = Returned(InsufficientResult(OpOf(calls[c].op),
                                                            calls[c].address))]]

\* the balance covers the cost: client.request(...) is called with the
\* transaction
SendFunded(c, b, tx) ==
  calls' = [calls EXCEPT ![c] =
              [@ EXCEPT !.pc = "awaitRequest", !.requests = @ + 1, !.balance = Known(b),
                        !.funds = Compare(b, tx), !.built = Payload(OpOf(calls[c].op)),
                        !.sent = Payload(OpOf(calls[c].op))]]

----------------------------------------------------------------------------
(* Initial state: the provider as constructed, before WalletConnect is up *)

Init ==
  /\ client = "undefined"
  /\ session = "undefined"
  /\ pending = FALSE
  /\ result = Unset
  /\ rpc \in Operations \cup {PingOp}
  /\ calls = [c \in Calls |-> IdleCall]
  /\ ended = NotEnded
  /\ raced = FALSE
  /\ isTestnet \in BOOLEAN
  /\ codec = NoCodec
  /\ chain = NoLookup

----------------------------------------------------------------------------
(* The collaborator: the WalletConnect client comes up, a session is       *)
(* established, a session ends                                             *)

ClientReady ==
  /\ ~Running
  /\ client = "undefined"
  /\ client' = "ready"
  /\ ended' = NotEnded
  /\ UNCHANGED <<session, pending, result, rpc, isTestnet, codec, chain, calls, raced>>

Connect ==
  /\ ~Running
  /\ client = "ready" /\ session = "undefined"
  /\ session' = "connected"
  /\ ended' = NotEnded
  /\ UNCHANGED <<client, pending, result, rpc, isTestnet, codec, chain, calls, raced>>

Disconnect ==
  /\ ~Running
  /\ session = "connected"
  /\ session' = "undefined"
  /\ ended' = NotEnded
  /\ UNCHANGED <<client, pending, result, rpc, isTestnet, codec, chain, calls, raced>>

\* variant: switching networks clears the result slot
SetIsTestnetResets ==
  /\ ~Running
  /\ isTestnet' = ~isTestnet
  /\ result' = Unset
  /\ ended' = NotEnded
  /\ UNCHANGED <<client, session, pending, rpc, calls, raced, codec, chain>>

\* setIsTestnet(...): the caller toggles the testnet flag
SetIsTestnet ==
  /\ ~Running
  /\ isTestnet' = ~isTestnet
  /\ ended' = NotEnded
  /\ UNCHANGED <<client, session, pending, result, rpc, calls, raced, codec, chain>>

----------------------------------------------------------------------------
(* The dispatcher: the handler _createJsonRpcRequestHandler(rpcRequest)    *)

\* variant: the try is entered without setPending(true)
AdmitWithoutPending(c, o, chainId, address) ==
  /\ calls' = [calls EXCEPT ![c] =
                [IdleCall EXCEPT !.pc = "entered", !.op = o, !.chainId = chainId,
                                 !.address = address]]
  /\ raced' = (raced \/ \E d \in Calls \ {c} : Active(d))
  /\ ended' = NotEnded
  /\ UNCHANGED <<pending, result>>

\* variant: the result slot is cleared when the try is entered
AdmitClearsResult(c, o, chainId, address) ==
  /\ pending' = TRUE
  /\ result' = Unset
  /\ calls' = [calls EXCEPT ![c] =
                [IdleCall EXCEPT !.pc = "entered", !.op = o, !.chainId = chainId,
                                 !.address = address]]
  /\ raced' = (raced \/ \E d \in Calls \ {c} : Active(d))
  /\ ended' = NotEnded

\* the try of the handler is entered: setPending(true).  The invocation
\* takes a place in calls.
Admit(c, o, chainId, address) ==
  /\ pending' = TRUE
  /\ calls' = [calls EXCEPT ![c] =
                [IdleCall EXCEPT !.pc = "entered", !.op = o, !.chainId = chainId,
                                 !.address = address]]
  /\ raced' = (raced \/ \E d \in Calls \ {c} : Active(d))
  /\ ended' = NotEnded
  /\ UNCHANGED result

\* a handler is called: the two checks, which throw to the caller, then the
\* try.  The invocation takes the first free place of calls.
Enter(c, o, chainId, address) ==
  /\ ~Running
  /\ calls[c].pc = "idle"
  /\ \A d \in 1..(c - 1) : Active(d)
  /\ IF Precondition(client, session) # NoError
     THEN /\ ended' = Rejected(Precondition(client, session))
          /\ UNCHANGED <<pending, result, calls, raced>>
     ELSE Admit(c, o, chainId, address)
  /\ UNCHANGED <<client, session, rpc, isTestnet, codec, chain>>

\* variant: an invocation is refused while another is pending
InvokeExclusive(c) ==
  /\ ~pending
  /\ rpc # PingOp
  /\ \E chainId \in Chains(OpOf(rpc)), address \in AddressesOf(OpOf(rpc)) :
       Enter(c, rpc, chainId, address)

\* a namespace operation is invoked with (chainId, address)
Invoke(c) ==
  /\ rpc # PingOp
  /\ \E chainId \in Chains(OpOf(rpc)), address \in AddressesOf(OpOf(rpc)) :
       Enter(c, rpc, chainId, address)

\* ping is invoked
Ping(c) ==
  /\ rpc = PingOp
  /\ Enter(c, PingOp, NoChain, "")

\* the operation's code up to its first await: the lookups, the payload, and
\* the request when nothing is awaited before it
Start(c) ==
  LET o == OpOf(calls[c].op)
      found == AccountError(calls[c].chainId, calls[c].address)
  IN  CASE o.pre = "account" ->
             IF found # NoError THEN SettleLookup(c, found) ELSE Await(c, "awaitPre", NoReply)
        [] o.pre \in {"keys", "recent"} ->
             \E solanaPublicKeys \in BOOLEAN :
               IF ~solanaPublicKeys
               THEN SettleLookup(c, Err("Error", "Could not find Solana PublicKeys."))
               ELSE IF o.pre = "recent" THEN Await(c, "awaitPre", NoReply)
               ELSE SendRequest(c, "n/a", Payload(o))
        [] o.pre = "address" ->
             \E bech32 \in BOOLEAN :
               IF ~bech32 THEN Settle(c, Threw(Err("Error", "Cannot create address")))
               ELSE SendRequest(c, "n/a", Payload(o))
        [] o.pre = "trigger" -> Await(c, "awaitPre", NoReply)
        [] OTHER -> SendRequest(c, "n/a", Payload(o))

\* variant: rpcRequest is called and not awaited, so that the finally runs at
\* once
BeginNotAwaited(c) ==
  /\ calls[c].pc = "entered"
  /\ calls[c].op # PingOp
  /\ Start(c)
  /\ pending' = FALSE
  /\ ended' = NotEnded
  /\ UNCHANGED <<client, session, result, rpc, isTestnet, codec, chain, raced>>

\* variant: the operation looks the provider up before it sends the request
BeginChecksProvider(c) ==
  /\ calls[c].pc = "entered"
  /\ calls[c].op # PingOp
  /\ LET lookup == LookupError(OpOf(calls[c].op), calls[c].chainId)
     IN  IF OpOf(calls[c].op).post = "oracle" /\ lookup # NoError
         THEN SettleLookup(c, lookup)
         ELSE Start(c)
  /\ ended' = NotEnded
  /\ UNCHANGED <<client, session, pending, result, rpc, isTestnet, codec, chain, raced>>

\* the handler calls rpcRequest(chainId, address) and awaits it
Begin(c) ==
  /\ calls[c].pc = "entered"
  /\ calls[c].op # PingOp
  /\ Start(c)
  /\ ended' = NotEnded
  /\ UNCHANGED <<client, session, pending, result, rpc, isTestnet, codec, chain, raced>>

\* ping's try: client.ping({topic}) is called and awaited
BeginPing(c) ==
  /\ calls[c].pc = "entered"
  /\ calls[c].op = PingOp
  /\ Await(c, "awaitPing", NoReply)
  /\ ended' = NotEnded
  /\ UNCHANGED <<client, session, pending, result, rpc, isTestnet, codec, chain, raced>>

\* formatTestTransaction / getRecentBlockhash / triggerSmartContract resolves:
\* the payload is completed, and sent unless the balance does not cover it
PreResolve(c) ==
  /\ ~Running
  /\ calls[c].pc = "awaitPre"
  /\ LET o == OpOf(calls[c].op)
     IN  IF o.funds
         THEN \E tx \in Transactions, b \in Balances :
                IF InsufficientFunds(b, tx) THEN ShortCircuit(c, b, tx)
                ELSE SendFunded(c, b, tx)
         ELSE SendRequest(c, "n/a", Payload(o))
  /\ ended' = NotEnded
  /\ UNCHANGED <<client, session, pending, result, rpc, isTestnet, codec, chain, raced>>

\* ... or rejects: the operation has no catch around it
PreReject(c) ==
  /\ ~Running
  /\ calls[c].pc = "awaitPre"
  /\ \E e \in Rejections : Settle(c, Threw(e))
  /\ ended' = NotEnded
  /\ UNCHANGED <<client, session, pending, result, rpc, isTestnet, codec, chain, raced>>

\* testSignTransaction of ethereumRpc once the peer has replied with v
Recover(c, v) ==
  LET o == OpOf(calls[c].op)
      a == calls[c].address
      h == [NoHistory EXCEPT !.route = Routine(calls[c].chainId[2])]
  IN  IF v = NullReply THEN Conclude(c, v, h, Threw(Wrap(o, TypeErr)))
      ELSE IF h.route = "verifySignature"
      THEN Conclude(c, v, [h EXCEPT !.verdict = Verdict(EthVerifySignature(v))],
                    Returned(Success(o, a, EthVerifySignature(v), v)))
      ELSE IF v # Unsigned
      THEN Conclude(c, v, [h EXCEPT !.verdict = Verdict(SignerMatches(v, a))],
                    Returned(Success(o, a, SignerMatches(v, a), v)))
      ELSE \* no key produced the signature: recovery throws, or yields an
           \* address that is not the account's
           \E recovered \in BOOLEAN :
             IF recovered
             THEN Conclude(c, v, [h EXCEPT !.verdict = "false"],
                           Returned(Success(o, a, FALSE, v)))
             ELSE Conclude(c, v, h, Threw(Wrap(o, Err("Error", "Invalid signature"))))

\* testSignTransactions of elrondRpc once the peer has replied with v
VerifyBatch(c, v) ==
  LET o == OpOf(calls[c].op)
      a == calls[c].address
  IN  IF v = NullReply \/ Len(SignaturesOf(v)) < BatchSize
      THEN Conclude(c, v, NoHistory, Threw(Wrap(o, TypeErr)))
      ELSE LET valid == Reduce(SignaturesOf(v), 1, TRUE)
           IN  Conclude(c, v, [NoHistory EXCEPT !.checked = calls[c].sent,
                                                !.verdict = Verdict(valid)],
                        Returned(Success(o, a, valid, v)))

\* variant: signatureVerify is called as soon as the peer has replied
VerifyUnready(c, v) ==
  IF v = NullReply
  THEN Conclude(c, v, NoHistory, Threw(Wrap(OpOf(calls[c].op), TypeErr)))
  ELSE \E valid \in BOOLEAN :
         Conclude(c, v, [NoHistory EXCEPT !.checked = calls[c].sent,
                                          !.verdict = Verdict(valid)],
                  Returned(Success(OpOf(calls[c].op), calls[c].address, valid, v)))

\* testSignMessage of polkadotRpc once the peer has replied with v:
\* await cryptoWaitReady()
WaitReady(c, v) == Await(c, "awaitVerify", v)

\* the peer replies to the request: the operation runs on, to its next await
\* or to its return
Reply(c) ==
  /\ ~Running
  /\ calls[c].pc = "awaitRequest"
  /\ \E v \in Replies(OpOf(calls[c].op)) :
       LET o == OpOf(calls[c].op)
           a == calls[c].address
           lookup == LookupError(o, calls[c].chainId)
       IN  CASE o.post = "ack" ->
                  Conclude(c, v, NoHistory,
                           IF ReadThrows(o, v) THEN Threw(Wrap(o, TypeErr))
                           ELSE Returned(Success(o, a, TRUE, v)))
             [] o.post = "verify" ->
                  IF v = NullReply THEN Conclude(c, v, NoHistory, Threw(Wrap(o, TypeErr)))
                  ELSE \E valid \in BOOLEAN :
                         Conclude(c, v, [NoHistory EXCEPT !.checked = calls[c].sent,
                                                          !.verdict = Verdict(valid)],
                                  Returned(Success(o, a, valid, v)))
             [] o.post = "recover" -> Recover(c, v)
             [] o.post = "batch" -> VerifyBatch(c, v)
             [] o.post \in {"oracle", "chain"} ->
                  IF lookup # NoError
                  THEN Conclude(c, v, [NoHistory EXCEPT !.failed = lookup],
                                Threw(Wrap(o, lookup)))
                  ELSE IF ReadThrows(o, v) THEN Conclude(c, v, NoHistory, Threw(Wrap(o, TypeErr)))
                  ELSE AwaitVerify(c, v, calls[c].sent)
             [] OTHER -> WaitReady(c, v)
  /\ ended' = NotEnded
  /\ UNCHANGED <<client, session, pending, result, rpc, isTestnet, codec, chain, raced>>

\* variant: a rejected request is issued once more
FailRetries(c) ==
  /\ ~Running
  /\ calls[c].pc = "awaitRequest"
  /\ \E e \in Rejections :
       calls' = [calls EXCEPT ![c] =
                   IF @.requests < 2
                   THEN [@ EXCEPT !.requests = @ + 1, !.rejected = e]
                   ELSE [@ EXCEPT !.pc = "settled", !.rejected = e,
                                  !.out = Threw(Wrap(OpOf(calls[c].op), e))]]
  /\ ended' = NotEnded
  /\ UNCHANGED <<client, session, pending, result, rpc, isTestnet, codec, chain, raced>>

\* the channel rejects the request
Fail(c) ==
  /\ ~Running
  /\ calls[c].pc = "awaitRequest"
  /\ \E e \in Rejections :
       calls' = [calls EXCEPT ![c] =
                   [@ EXCEPT !.pc = "settled", !.rejected = e,
                             !.out = Threw(Wrap(OpOf(calls[c].op), e))]]
  /\ ended' = NotEnded
  /\ UNCHANGED <<client, session, pending, result, rpc, isTestnet, codec, chain, raced>>

\* verifySignature / verify...Signature resolves with a verdict, or
\* cryptoWaitReady resolves and signatureVerify gives one
VerifyResolve(c) ==
  /\ ~Running
  /\ calls[c].pc = "awaitVerify"
  /\ LET o == OpOf(calls[c].op)
         v == calls[c].reply
     IN  IF o.post = "ready" /\ v = NullReply
         THEN Conclude(c, v, NoHistory, Threw(Wrap(o, TypeErr)))
         ELSE \E valid \in BOOLEAN :
                Conclude(c, v, [NoHistory EXCEPT !.checked = calls[c].sent,
                                                 !.verdict = Verdict(valid)],
                         Returned(Success(o, calls[c].address, valid, v)))
  /\ ended' = NotEnded
  /\ UNCHANGED <<client, session, pending, result, rpc, isTestnet, codec, chain, raced>>

\* the verification oracle rejects
VerifyReject(c) ==
  /\ ~Running
  /\ calls[c].pc = "awaitVerify"
  /\ \E e \in Rejections : Settle(c, Threw(Wrap(OpOf(calls[c].op), e)))
  /\ ended' = NotEnded
  /\ UNCHANGED <<client, session, pending, result, rpc, isTestnet, codec, chain, raced>>

\* client.ping resolves: valid = true
PingResolve(c) ==
  /\ ~Running
  /\ calls[c].pc = "awaitPing"
  /\ SettlePing(c, "resolved", Returned(PingResult(TRUE)))
  /\ ended' = NotEnded
  /\ UNCHANGED <<client, session, pending, result, rpc, isTestnet, codec, chain, raced>>

\* variant: ping has no inner catch, so that a rejection reaches the outer one
PingRejectRethrows(c) ==
  /\ ~Running
  /\ calls[c].pc = "awaitPing"
  /\ \E e \in Rejections : SettlePing(c, "rejected", Threw(e))
  /\ ended' = NotEnded
  /\ UNCHANGED <<client, session, pending, result, rpc, isTestnet, codec, chain, raced>>

\* client.ping rejects: the inner catch sets valid = false
PingReject(c) ==
  /\ ~Running
  /\ calls[c].pc = "awaitPing"
  /\ SettlePing(c, "rejected", Returned(PingResult(FALSE)))
  /\ ended' = NotEnded
  /\ UNCHANGED <<client, session, pending, result, rpc, isTestnet, codec, chain, raced>>

\* what an invocation writes to the result slot
Slot(c) ==
  IF calls[c].op = PingOp THEN PingPublished(calls[c].out)
  ELSE Published(calls[c].address, calls[c].out)

\* variant: setResult in the try only; the catch swallows the error
PublishInTry(c) ==
  /\ calls[c].pc = "settled"
  /\ IF calls[c].out.kind = "returned"
     THEN /\ result' = Slot(c)
          /\ calls' = [calls EXCEPT ![c] = [@ EXCEPT !.pc = "published", !.wrote = @ + 1]]
     ELSE /\ result' = result
          /\ calls' = [calls EXCEPT ![c] = [@ EXCEPT !.pc = "published"]]
  /\ ended' = NotEnded
  /\ UNCHANGED <<client, session, pending, rpc, isTestnet, codec, chain, raced>>

\* setResult(...), in the try or in the catch
Publish(c) ==
  /\ calls[c].pc = "settled"
  /\ result' = Slot(c)
  /\ calls' = [calls EXCEPT ![c] = [@ EXCEPT !.pc = "published", !.wrote = @ + 1]]
  /\ ended' = NotEnded
  /\ UNCHANGED <<client, session, pending, rpc, isTestnet, codec, chain, raced>>

\* variant: setPending(false) at the end of the try instead of in a finally
FinallyInTry(c) ==
  /\ calls[c].pc = "published"
  /\ pending' = (pending /\ calls[c].out.kind # "returned")
  /\ calls' = [calls EXCEPT ![c] = IdleCall]
  /\ ended' = Resolved
  /\ raced' = (raced /\ \E d \in Calls \ {c} : Active(d))
  /\ UNCHANGED <<client, session, result, rpc, isTestnet, codec, chain>>

\* variant: setPending(false) as soon as rpcRequest has settled, before
\* setResult
FinallyBeforePublish(c) ==
  /\ calls[c].pc \in {"settled", "published"}
  /\ pending' = FALSE
  /\ calls' = [calls EXCEPT ![c] = IF @.pc = "published" THEN IdleCall ELSE @]
  /\ ended' = (IF calls[c].pc = "published" THEN Resolved ELSE NotEnded)
  /\ raced' = (raced /\ \E d \in Calls \ {c} : Active(d)')
  /\ UNCHANGED <<client, session, result, rpc, isTestnet, codec, chain>>

\* variant: the flag is cleared by the last invocation to return
FinallyWhenLast(c) ==
  /\ calls[c].pc = "published"
  /\ pending' = (\E d \in Calls \ {c} : Active(d))
  /\ calls' = [calls EXCEPT ![c] = IdleCall]
  /\ ended' = Resolved
  /\ raced' = (raced /\ \E d \in Calls \ {c} : Active(d))
  /\ UNCHANGED <<client, session, result, rpc, isTestnet, codec, chain>>

\* finally: setPending(false), and the handler returns
Finally(c) ==
  /\ calls[c].pc = "published"
  /\ pending' = FALSE
  /\ calls' = [calls EXCEPT ![c] = IdleCall]
  /\ ended' = Resolved
  /\ raced' = (raced /\ \E d \in Calls \ {c} : Active(d))
  /\ UNCHANGED <<client, session, result, rpc, isTestnet, codec, chain>>

----------------------------------------------------------------------------

Next ==
  \/ ClientReady
  \/ Connect
  \/ Disconnect
  \/ SetIsTestnet
  \/ \E c \in Calls : Invoke(c)
  \/ \E c \in Calls : Ping(c)
  \/ \E c \in Calls : Begin(c)
  \/ \E c \in Calls : BeginPing(c)
  \/ \E c \in Calls : PreResolve(c)
  \/ \E c \in Calls : PreReject(c)
  \/ \E c \in Calls : Reply(c)
  \/ \E c \in Calls : Fail(c)
  \/ \E c \in Calls : VerifyResolve(c)
  \/ \E c \in Calls : VerifyReject(c)
  \/ \E c \in Calls : PingResolve(c)
  \/ \E c \in Calls : PingReject(c)
  \/ \E c \in Calls : Publish(c)
  \/ \E c \in Calls : Finally(c)

Spec == Init /\ [][Next]_vars

\* the steps of one invocation, from the try to the return
Progress(c) ==
  \/ Begin(c) \/ BeginPing(c)
  \/ PreResolve(c) \/ PreReject(c)
  \/ Reply(c) \/ Fail(c)
  \/ VerifyResolve(c) \/ VerifyReject(c)
  \/ PingResolve(c) \/ PingReject(c)
  \/ Publish(c) \/ Finally(c)

\* the event loop runs every continuation that is ready, and the channel and
\* the oracles are taken to settle every promise they hand out: an
\* invocation that can take a step again and again does take one
Fairness == \A c \in Calls : SF_vars(Progress(c))

FairSpec == Spec /\ Fairness

----------------------------------------------------------------------------
(* The extended-JSON functions on their own: a structure is written and    *)
(* read back                                                               *)

ExtendedJsonInit ==
  /\ client = "undefined"
  /\ session = "undefined"
  /\ pending = FALSE
  /\ result = Unset
  /\ rpc = <<"xmrRpc", "testGetBalances">>
  /\ calls = [c \in Calls |-> IdleCall]
  /\ ended = NotEnded
  /\ raced = FALSE
  /\ isTestnet = FALSE
  /\ codec \in {[NoCodec EXCEPT !.stage = "value", !.value = x] : x \in Structures}
  /\ chain = NoLookup

\* stringifyExtendedJson(value)
Stringify ==
  /\ codec.stage = "value"
  /\ codec' = [codec EXCEPT !.stage = "json", !.json = stringifyExtendedJson(codec.value)]
  /\ UNCHANGED <<client, session, pending, result, rpc, calls, ended, raced, isTestnet, chain>>

\* parseExtendedJson(json)
Parse ==
  /\ codec.stage = "json"
  /\ codec' = [codec EXCEPT !.stage = "back", !.back = parseExtendedJson(codec.json)]
  /\ UNCHANGED <<client, session, pending, result, rpc, calls, ended, raced, isTestnet, chain>>

ExtendedJsonNext == Stringify \/ Parse

ExtendedJsonSpec == ExtendedJsonInit /\ [][ExtendedJsonNext]_vars

----------------------------------------------------------------------------
(* getChainMetadata on its own: a chainId is handed to the function of one *)
(* of the two modules                                                      *)

ChainMetadataInit ==
  /\ client = "undefined"
  /\ session = "undefined"
  /\ pending = FALSE
  /\ result = Unset
  /\ rpc = <<"bchRpc", "testGetAddresses">>
  /\ calls = [c \in Calls |-> IdleCall]
  /\ ended = NotEnded
  /\ raced = FALSE
  /\ isTestnet = FALSE
  /\ codec = NoCodec
  /\ chain \in {[NoLookup EXCEPT !.stage = "called", !.chainId = id] :
                  id \in SegmentedChainIds}

\* getChainMetadata of chains/bch.ts
BchGetChainMetadata ==
  /\ chain.stage = "called"
  /\ chain' = [chain EXCEPT !.stage = "done", !.module = "bch",
                            !.out = getChainMetadata(BchMetadata, chain.chainId)]
  /\ UNCHANGED <<client, session, pending, result, rpc, calls, ended, raced, isTestnet,
                 codec>>

\* getChainMetadata of chains/xmr.ts
XmrGetChainMetadata ==
  /\ chain.stage = "called"
  /\ chain' = [chain EXCEPT !.stage = "done", !.module = "xmr",
                            !.out = getChainMetadata(XmrMetadata, chain.chainId)]
  /\ UNCHANGED <<client, session, pending, result, rpc, calls, ended, raced, isTestnet,
                 codec>>

ChainMetadataNext == BchGetChainMetadata \/ XmrGetChainMetadata

ChainMetadataSpec == ChainMetadataInit /\ [][ChainMetadataNext]_vars

----------------------------------------------------------------------------
(* Properties *)

Absent == client = "undefined" \/ session = "undefined"

InProgress == {c \in Calls : Active(c)}

\* C1: invoking an operation while the client or the session is absent
\* rejects to the caller with the initialization error, and the step changes
\* neither the pending flag, nor the result slot, nor any invocation (so no
\* request is issued); while either is absent no invocation enters the try
\* and the pending flag is never raised.
C1_AbsentRejectsAndChangesNothing ==
  [][ /\ (Absent /\ (\E c \in Calls : Invoke(c)) => ended'.how = "rejected")
      /\ (Absent => /\ \A c \in Calls : calls[c].pc = "idle" => calls'[c].pc = "idle"
                    /\ (pending' => pending))
      /\ (ended'.how = "rejected" =>
            /\ Absent
            /\ ended'.error.kind = "Error"
            /\ ended'.error.message = (IF client = "undefined"
                                       THEN "WalletConnect is not initialized"
                                       ELSE "Session is not connected")
            /\ UNCHANGED <<pending, result, calls>>) ]_vars

\* an invocation has been rejected for a session that ended after an earlier
\* call had published its result
C1_Witness ==
  /\ ended.how = "rejected"
  /\ client = "ready" /\ session = "undefined"
  /\ result.tag = "record"
  /\ ~pending

\* C2 (as stated): when the channel rejects the request with an Error, the
\* invocation publishes valid = false and the rejection's message, whatever
\* the namespace.
C2_RejectionMessagePublished ==
  \A c \in Calls :
    calls[c].pc = "published" /\ calls[c].rejected.kind = "Error" =>
      /\ result.tag = "record"
      /\ ~result.valid
      /\ result.result = calls[c].rejected.message

\* C3: with calls serialized, the pending flag is up from the moment an
\* invocation has entered the try until it has returned, and it is down when
\* the handler has returned, whatever the path taken.
C3_PendingForTheDuration ==
  ~raced => /\ \A c \in Calls : Active(c) => pending
            /\ (ended = Resolved => ~pending)

\* a serialized call whose failure was caught has returned
C3_Witness ==
  /\ ~raced
  /\ ended = Resolved
  /\ ~pending
  /\ result.tag = "record" /\ ~result.valid /\ result.method = Undefined

\* C4: a send-transaction whose balance is below gasPrice * gasLimit
\* issues no request and returns, then publishes, valid = false with
\* "Insufficient funds for intrinsic transaction cost".
C4_InsufficientFundsShortCircuit ==
  \A c \in Calls :
    calls[c].funds = "lt" =>
      /\ calls[c].requests = 0
      /\ calls[c].pc \in {"settled", "published"}
      /\ calls[c].out.kind = "returned"
      /\ calls[c].out.value.tag = "record"
      /\ ~calls[c].out.value.valid
      /\ calls[c].out.value.result = "Insufficient funds for intrinsic transaction cost"
      /\ calls[c].out.value.address = calls[c].address
      /\ (calls[c].pc = "published" => result = calls[c].out.value)

C4_Witness ==
  \E c \in Calls :
    /\ calls[c].funds = "lt"
    /\ calls[c].pc = "published"
    /\ calls[c].op = <<"ethereumRpc", "testSendTransaction">>
    /\ result.result = "Insufficient funds for intrinsic transaction cost"

\* C5 (as stated): in every state the pending flag is up exactly when one
\* invocation is in progress, and no more than one is.
C5_PendingIffExactlyOne ==
  /\ pending <=> Cardinality(InProgress) = 1
  /\ Cardinality(InProgress) <= 1

\* C5 (amended): as long as no invocation has been started while another was
\* in progress, the pending flag is up exactly when an invocation is in
\* progress, and no more than one is.
C5_PendingIffInProgressWhenSerialized ==
  ~raced => /\ pending <=> InProgress # {}
            /\ Cardinality(InProgress) <= 1

C5_Witness ==
  /\ ~raced
  /\ pending
  /\ \E c \in Calls : calls[c].pc = "awaitRequest" /\ calls[c].requests = 1

\* C6: an invocation can be started whenever the client and the session are
\* there, a pending one notwithstanding; the result slot changes only when an
\* invocation publishes, and then holds what that invocation publishes,
\* whatever another has written before.
C6_NoExclusionLastWriterWins ==
  /\ [](~Absent /\ ~Running /\ rpc # PingOp /\ (\E c \in Calls : ~Active(c))
          => ENABLED (\E c \in Calls : Invoke(c)))
  /\ [](\A c \in Calls : calls[c].pc = "published" => result = Slot(c))
  /\ [][result' # result =>
          \E c \in Calls : /\ calls[c].pc = "settled"
                           /\ calls'[c].pc = "published"
                           /\ result' = Slot(c)]_vars

\* of two overlapping invocations the first has returned, and the second,
\* which issued its own request, has written the slot last
C6_Witness ==
  /\ raced
  /\ ~Active(1)
  /\ calls[2].pc = "published"
  /\ calls[2].requests = 1
  /\ result = Slot(2)
  /\ ~pending

EndedBeforeRequest(c) ==
  \/ calls[c].funds = "lt"
  \/ calls[c].out.kind = "threw" /\ OpOf(calls[c].op).pre # "none"

\* C8 (as stated): an invocation of a dispatched operation that has
\* published has issued exactly one request.
C8_ExactlyOneRequest ==
  \A c \in Calls :
    calls[c].pc = "published" /\ calls[c].op # PingOp => calls[c].requests = 1

\* C8 (amended): an invocation issues at most one request, and none after a
\* rejection; it has issued exactly one once it awaits the peer or anything
\* after it, and one that has finished without a request ended before the
\* request: insufficient funds, or an error thrown by what precedes it.
C8_AtMostOneRequestNoRetry ==
  \A c \in Calls :
    /\ calls[c].requests <= 1
    /\ (calls[c].pc \in {"awaitRequest", "awaitVerify"} => calls[c].requests = 1)
    /\ (calls[c].rejected # NoError => calls[c].requests = 1 /\ calls[c].pc # "awaitRequest")
    /\ (calls[c].pc \in {"settled", "published"} /\ calls[c].op # PingOp =>
          /\ (calls[c].requests = 0 => EndedBeforeRequest(c))
          /\ (calls[c].funds = "lt" => calls[c].requests = 0))

\* a rejected request has been published, one request having been issued
C8_Witness ==
  \E c \in Calls :
    /\ calls[c].pc = "published"
    /\ calls[c].rejected # NoError
    /\ calls[c].requests = 1

\* C9: what a dispatched operation publishes is what it returned, or, when
\* it threw, a record with valid = false for its address that carries the
\* error, never what the slot held before; the slot keeps it until an
\* invocation publishes again.
C9_SlotSupersededByEveryCall ==
  /\ [](\A c \in Calls :
          calls[c].pc = "published" /\ calls[c].op # PingOp =>
            IF calls[c].out.kind = "returned" THEN result = calls[c].out.value
            ELSE /\ result.tag = "record"
                 /\ ~result.valid
                 /\ result.address = calls[c].address
                 /\ result.result = MessageOrSelf(calls[c].out.error))
  /\ [][result' # result => \E c \in Calls : calls'[c].pc = "published"]_vars
  /\ [][ended'.how = "resolved" => result' = result]_vars

\* a serialized call fails after an earlier one has published a valid result
C9_Witness ==
  \E c \in Calls :
    /\ ~raced
    /\ calls[c].pc = "settled"
    /\ calls[c].out.kind = "threw"
    /\ result.tag = "record" /\ result.valid

\* C10 (as stated): while an invocation awaits the peer's reply, the pending
\* flag is up and the invocation has not written the result slot.
C10_PendingWhileAwaiting ==
  \A c \in Calls : calls[c].pc = "awaitRequest" => pending /\ calls[c].wrote = 0

\* C10 (amended): with calls serialized, while an invocation awaits the
\* peer's reply the pending flag is up and the invocation has not written the
\* result slot; the flag and the slot stay as they are for as long as it
\* awaits, and only a reply or a rejection ends the wait.
C10_PendingWhileAwaitingWhenSerialized ==
  /\ [](~raced => \A c \in Calls :
          calls[c].pc = "awaitRequest" => pending /\ calls[c].wrote = 0)
  /\ [][\A c \in Calls :
          calls[c].pc = "awaitRequest" /\ ~raced =>
            IF calls'[c].pc = "awaitRequest"
            THEN pending' /\ result' = result
            ELSE Reply(c) \/ Fail(c)]_vars

\* the only invocation awaits the peer, an earlier call's result in the slot
C10_Witness ==
  \E c \in Calls :
    /\ ~raced
    /\ calls[c].pc = "awaitRequest"
    /\ pending
    /\ result.tag = "record"

Finished(c) == calls[c].pc \in {"settled", "published"}

\* C11: a request carries the payload the operation has built, and that
\* payload is complete before the request is issued and is not changed
\* afterwards; nothing is verified, and no routine or verdict recorded,
\* before the peer has replied; a verifier that takes the payload is handed
\* the one that was sent; and the wait for a verifier is entered only from
\* the wait for the peer, itself entered only from the code before it.
C11_PhasesOrdered ==
  /\ [](\A c \in Calls :
          /\ (calls[c].requests > 0 =>
                calls[c].sent # NoPayload /\ calls[c].sent = calls[c].built)
          /\ (calls[c].requests = 0 =>
                calls[c].sent = NoPayload /\ calls[c].reply = NoReply)
          /\ (calls[c].pc = "awaitRequest" => calls[c].reply = NoReply)
          /\ (calls[c].reply = NoReply =>
                /\ calls[c].checked = NoPayload
                /\ calls[c].verdict = "n/a"
                /\ calls[c].route = "n/a"
                /\ calls[c].pc # "awaitVerify")
          /\ (calls[c].checked # NoPayload => calls[c].checked = calls[c].sent))
  /\ [][\A c \in Calls :
          /\ (calls[c].pc # "awaitVerify" /\ calls'[c].pc = "awaitVerify" =>
                calls[c].pc = "awaitRequest")
          /\ (calls[c].pc # "awaitRequest" /\ calls'[c].pc = "awaitRequest" =>
                calls[c].pc \in {"entered", "awaitPre"})
          /\ (calls[c].sent # NoPayload /\ Active(c)' =>
                calls'[c].sent = calls[c].sent)]_vars

\* a signature has been verified against the payload that was sent
C11_Witness ==
  \E c \in Calls :
    /\ calls[c].pc = "published"
    /\ calls[c].op = <<"elrondRpc", "testSignTransaction">>
    /\ calls[c].checked = calls[c].sent
    /\ calls[c].sent # NoPayload
    /\ calls[c].verdict = "true"

\* C12 (as stated): whatever the path, what a dispatched operation
\* publishes carries the method of the operation (decorated for eth_sign).
C12_MethodAlwaysCanonical ==
  \A c \in Calls :
    calls[c].pc = "published" /\ calls[c].op # PingOp =>
      result.tag = "record" /\ result.method = OpOf(calls[c].op).label

\* C13: once an invocation has published, and once a handler has resolved,
\* the result slot holds a record whose valid is true or false: it is neither
\* unset nor null.
C13_ValidAlwaysSet ==
  (ended = Resolved \/ \E c \in Calls : calls[c].pc = "published") =>
    result.tag = "record" /\ result.valid \in BOOLEAN

\* a ping whose client.ping rejected has returned
C13_Witness ==
  /\ ended = Resolved
  /\ result.tag = "record"
  /\ result.method = PING
  /\ ~result.valid

\* C14: an operation whose account or endpoint lookup failed ends by
\* throwing that error to the dispatcher, which publishes valid = false
\* with the error's message for the address; an operation called with an
\* address that is not an account of the session, and one called on a chain
\* without provider or chain data once the peer has replied, do fail so.
C14_LookupFailurePublished ==
  \A c \in Calls :
    /\ (calls[c].failed # NoError =>
          /\ Finished(c)
          /\ calls[c].failed.kind = "Error"
          /\ calls[c].out.kind = "threw"
          /\ (calls[c].pc = "published" =>
                /\ result.tag = "record"
                /\ ~result.valid
                /\ result.address = calls[c].address
                /\ result.result = calls[c].failed.message))
    /\ (/\ Finished(c)
        /\ calls[c].op \in {<<"ethereumRpc", "testSendTransaction">>,
                            <<"ethereumRpc", "testSignTransaction">>}
        /\ CaipAccount(calls[c].chainId, calls[c].address) \notin accounts
        => calls[c].failed.message =
             "Account for " \o CaipAccount(calls[c].chainId, calls[c].address) \o " not found")
    /\ (/\ Finished(c)
        /\ calls[c].reply \notin {NoReply, NullReply}
        /\ calls[c].chainId \in {<<"eip155", "999">>, <<"cosmos", "unlisted">>}
        => calls[c].failed.message \in
             {"Missing rpcProvider definition for chainId: eip155:999",
              "Missing chain data for chainId: cosmos:unlisted"})

\* the chain data lookup of a Cosmos operation has failed and been published
C14_Witness ==
  \E c \in Calls :
    /\ calls[c].pc = "published"
    /\ calls[c].requests = 1
    /\ result.result = "Missing chain data for chainId: cosmos:unlisted"
    /\ ~result.valid

EthSignTransaction == <<"ethereumRpc", "testSignTransaction">>

\* C15 (as stated): a sign-transaction of ethereumRpc publishes valid =
\* true only if the signer of the signed transaction is the address it was
\* called with, letter case aside, on either route.
C15_ValidOnlyForTheSigner ==
  \A c \in Calls :
    /\ calls[c].op = EthSignTransaction
    /\ calls[c].pc = "published"
    /\ calls[c].out.kind = "returned"
    /\ result.valid
    => /\ calls[c].reply \in {SignedBy(signer) : signer \in Signers}
       /\ toLowerCase(recoverTransaction(calls[c].reply)) = toLowerCase(calls[c].address)

\* C16: once the peer has replied to a sign-transaction of ethereumRpc with
\* a transaction, the routine that has run is recoverTransaction when the
\* chain's reference is 44787 or 42220 and verifySignature for any other
\* reference, whatever the address and the reply; no other operation runs
\* either.
C16_RoutineByReference ==
  \A c \in Calls :
    IF calls[c].op = EthSignTransaction /\ calls[c].reply # NoReply
    THEN calls[c].route = (IF calls[c].chainId[2] \in {"44787", "42220"}
                           THEN "recoverTransaction"
                           ELSE "verifySignature")
    ELSE calls[c].route = "n/a"

\* the signed transaction of a Celo mainnet call went through recoverTransaction
C16_Witness ==
  \E c \in Calls :
    /\ calls[c].pc = "published"
    /\ calls[c].chainId = <<"eip155", "42220">>
    /\ calls[c].route = "recoverTransaction"
    /\ result.valid

ElrondSignTransactions == <<"elrondRpc", "testSignTransactions">>

\* C17: the batch of elrondRpc returns valid = true exactly when, for each
\* of the three transactions, the signature at its index is the account's
\* signature over it: one signature that is not makes it false, as do
\* signatures that are good but out of place.
C17_BatchIsConjunction ==
  \A c \in Calls :
    calls[c].op = ElrondSignTransactions /\ calls[c].verdict # "n/a" =>
      /\ Finished(c)
      /\ calls[c].out.kind = "returned"
      /\ calls[c].out.value.valid = (calls[c].verdict = "true")
      /\ calls[c].out.value.valid =
           (\A i \in 1..BatchSize : SignaturesOf(calls[c].reply)[i] = SignatureOf(i))
      /\ calls[c].out.value.result = calls[c].reply
      /\ (calls[c].pc = "published" => result = calls[c].out.value)

\* only the second signature of a batch is bad
C17_Witness ==
  \E c \in Calls :
    /\ calls[c].pc = "published"
    /\ calls[c].op = ElrondSignTransactions
    /\ calls[c].reply = Join(<<SignatureOf(1), BadSignature, SignatureOf(3)>>)
    /\ ~result.valid
    /\ result.result = calls[c].reply

\* C18 (as stated): an operation without verifier publishes valid = true
\* whenever the peer has replied to its request, whatever the reply.
C18_ValidWheneverReplied ==
  \A c \in Calls :
    /\ calls[c].pc = "published"
    /\ OpOf(calls[c].op).post = "ack"
    /\ calls[c].reply # NoReply
    => result.tag = "record" /\ result.valid

\* C19 (as stated): a sign-transaction of bchRpc publishes valid = true
\* only for a reply that carries the artifact.
C19_ValidOnlyForAnArtifact ==
  \A c \in Calls :
    /\ calls[c].pc = "published"
    /\ calls[c].op = <<"bchRpc", "testSignTransaction">>
    /\ result.valid
    => calls[c].reply = Artifact /\ result.result = Artifact

\* C20: when the verifier has said no, the operation returns, and the
\* dispatcher publishes, the record of a successful call but for valid =
\* false: the operation's method, the address, and the artifact the peer
\* returned.
C20_InvalidArtifactIsInBand ==
  \A c \in Calls :
    calls[c].verdict = "false" =>
      /\ Finished(c)
      /\ calls[c].reply # NoReply
      /\ calls[c].out.kind = "returned"
      /\ calls[c].out.value.tag = "record"
      /\ ~calls[c].out.value.valid
      /\ calls[c].out.value.method = OpOf(calls[c].op).label
      /\ calls[c].out.value.address = calls[c].address
      /\ calls[c].out.value.result = calls[c].reply
      /\ (calls[c].pc = "published" => result = calls[c].out.value)

\* a Solana message signature that does not verify has been published
C20_Witness ==
  \E c \in Calls :
    /\ calls[c].pc = "published"
    /\ calls[c].op = <<"solanaRpc", "testSignMessage">>
    /\ calls[c].verdict = "false"
    /\ result.result = Artifact
    /\ ~result.valid

C22_SlotAndFlagFramed ==
  /\ (pending = FALSE /\ result = Unset /\ \A c \in Calls : ~Active(c))
  /\ [][ /\ (pending' # pending =>
               \E c \in Calls :
                 \/ calls[c].pc = "idle" /\ calls'[c].pc = "entered" /\ pending'
                 \/ calls[c].pc = "published" /\ calls'[c].pc = "idle" /\ ~pending')
         /\ (result' # result =>
               \E c \in Calls : calls[c].pc = "settled" /\ calls'[c].pc = "published")
         /\ (isTestnet' # isTestnet => UNCHANGED <<pending, result, calls>>)
         /\ (<<client, session>>' # <<client, session>> =>
               UNCHANGED <<pending, result, calls>>)
         /\ (ended'.how = "rejected" => UNCHANGED <<pending, result, calls>>) ]_vars

\* an invocation has been rejected for want of a session, the provider still
\* in its idle state
C22_Witness ==
  /\ ended.how = "rejected"
  /\ ended.error.message = "Session is not connected"
  /\ pending = FALSE
  /\ result = Unset
  /\ \A c \in Calls : ~Active(c)

PolkadotSignMessage == <<"polkadotRpc", "testSignMessage">>

\* C23: in the message signing of polkadotRpc every reply of the peer is
\* followed by the wait for cryptoWaitReady, entered from the wait for the
\* peer and from nowhere else; while that wait lasts nothing has been handed
\* to the verifier and there is no verdict; and a verdict appears only in
\* the step that ends the wait.
C23_ReadyBeforeVerify ==
  /\ [](\A c \in Calls :
          calls[c].op = PolkadotSignMessage =>
            /\ (calls[c].pc = "awaitVerify" =>
                  /\ calls[c].requests = 1
                  /\ calls[c].reply # NoReply
                  /\ calls[c].checked = NoPayload
                  /\ calls[c].verdict = "n/a")
            /\ (calls[c].pc \in {"entered", "awaitRequest"} => calls[c].verdict = "n/a"))
  /\ [][\A c \in Calls :
          calls[c].op = PolkadotSignMessage =>
            /\ (calls[c].pc = "awaitRequest" /\ calls'[c].reply # NoReply =>
                  calls'[c].pc = "awaitVerify")
            /\ (calls[c].pc # "awaitVerify" /\ calls'[c].pc = "awaitVerify" =>
                  calls[c].pc = "awaitRequest")
            /\ (calls[c].verdict = "n/a" /\ calls'[c].verdict # "n/a" =>
                  calls[c].pc = "awaitVerify" /\ calls'[c].pc = "settled")]_vars

\* a signature has been verified once the wait was over, and published
C23_Witness ==
  \E c \in Calls :
    /\ calls[c].op = PolkadotSignMessage
    /\ calls[c].pc = "published"
    /\ calls[c].verdict = "true"
    /\ calls[c].checked = calls[c].sent
    /\ result.valid

C25_PublishedBeforeCleared ==
  /\ [][pending /\ ~pending' =>
          \E c \in Calls : /\ calls[c].pc = "published"
                           /\ calls[c].wrote = 1
                           /\ ~Active(c)'
                           /\ result = Slot(c)
                           /\ result' = result]_vars
  /\ [](~raced => \A c \in Calls : Active(c) /\ calls[c].wrote = 0 => pending)

\* a serialized call has published the valid result of its request, and the
\* flag is still up
C25_Witness ==
  \E c \in Calls :
    /\ ~raced
    /\ calls[c].pc = "published"
    /\ pending
    /\ result = Slot(c)
    /\ result.valid
    /\ calls[c].requests = 1

\* C26: an invocation that returns puts the pending flag down whatever the
\* other invocations are doing, and leaves them as they are, a request in
\* flight included; and an invocation that publishes writes the result slot
\* whatever the flag says, and leaves the flag as it is.
C26_FirstFinisherClearsFlag ==
  /\ [][\A c \in Calls :
          calls[c].pc = "published" /\ ~Active(c)' =>
            /\ ~pending'
            /\ \A d \in Calls \ {c} : calls'[d] = calls[d]]_vars
  /\ [][\A c \in Calls :
          calls[c].pc = "settled" /\ calls'[c].pc = "published" =>
            /\ result' = Slot(c)
            /\ pending' = pending
            /\ calls'[c].wrote = 1]_vars

\* of two overlapping invocations one has published and returned: the flag
\* is down while the request of the other is still in flight
C26_Witness ==
  \E c \in Calls :
    /\ raced
    /\ ~pending
    /\ calls[c].pc = "awaitRequest"
    /\ calls[c].requests = 1
    /\ calls[c].wrote = 0
    /\ result.tag = "record"
    /\ \A d \in Calls \ {c} : ~Active(d)

EcdsaSignMessage ==
  {<<"ethereumRpc", "testSignPersonalMessage">>, <<"ethereumRpc", "testEthSign">>,
   <<"ethereumRpc", "testSignTypedData">>}

\* C28: personal sign, eth_sign and typed data invoked on a reference
\* without RPC provider send their request all the same, once and as the
\* first thing they do; the lookup fails only once the peer has replied;
\* the signature is then handed to no verifier and no verdict is computed;
\* and the operation throws, and the dispatcher publishes for the address,
\* valid = false with "Missing rpcProvider definition for chainId: ...".
C28_ProviderCheckedAfterReply ==
  \A c \in Calls :
    calls[c].op \in EcdsaSignMessage /\ calls[c].chainId[2] \notin {"1", "42220", "44787"} =>
      /\ calls[c].pc \in {"entered", "awaitRequest", "settled", "published"}
      /\ calls[c].requests = (IF calls[c].pc = "entered" THEN 0 ELSE 1)
      /\ calls[c].checked = NoPayload
      /\ calls[c].verdict = "n/a"
      /\ (calls[c].failed # NoError => calls[c].reply # NoReply)
      /\ (calls[c].pc \in {"settled", "published"} /\ calls[c].reply # NoReply =>
            /\ calls[c].out.kind = "threw"
            /\ calls[c].out.error.kind = "Error"
            /\ calls[c].out.error.message =
                 "Missing rpcProvider definition for chainId: " \o Caip(calls[c].chainId)
            /\ calls[c].failed = calls[c].out.error)
      /\ (calls[c].pc = "published" /\ calls[c].reply # NoReply =>
            result = Formatted(Undefined, calls[c].address, FALSE,
                               "Missing rpcProvider definition for chainId: eip155:999"))

\* the peer has signed a personal message for a reference without provider:
\* the signature is discarded and the missing provider published
C28_Witness ==
  \E c \in Calls :
    /\ calls[c].op = <<"ethereumRpc", "testSignPersonalMessage">>
    /\ calls[c].chainId = <<"eip155", "999">>
    /\ calls[c].pc = "published"
    /\ calls[c].requests = 1
    /\ calls[c].reply = Artifact
    /\ ~result.valid
    /\ result.result = "Missing rpcProvider definition for chainId: eip155:999"

\* C29: the address an invocation was called with stays the same while it
\* is in progress; the record a dispatched operation returns carries that
\* address, whatever the path; and what the invocation publishes, the
\* record it returned or the one made of the error it threw, carries it
\* too.
C29_AddressIsTheCallers ==
  /\ [](\A c \in Calls :
          Finished(c) /\ calls[c].op # PingOp =>
            /\ calls[c].address \in Addresses
            /\ (calls[c].out.kind = "returned" =>
                  calls[c].out.value.address = calls[c].address)
            /\ (calls[c].pc = "published" =>
                  result.tag = "record" /\ result.address = calls[c].address))
  /\ [][\A c \in Calls :
          Active(c) /\ Active(c)' => calls'[c].address = calls[c].address]_vars

\* of two overlapping invocations with different addresses, the one called
\* with addrB has failed and published: the slot carries addrB, not the
\* address of the other
C29_Witness ==
  \E c, d \in Calls :
    /\ calls[c].pc = "published"
    /\ calls[c].address = "addrB"
    /\ calls[c].out.kind = "threw"
    /\ Active(d)
    /\ calls[d].address = "addrA"
    /\ result.address = "addrB"

SendTransaction == <<"ethereumRpc", "testSendTransaction">>

\* C30: a send-transaction whose balance equals gasPrice * gasLimit, or
\* exceeds it, goes on to its request and does not return the
\* insufficient-funds record; one whose balance is below it issues no
\* request and returns that record; and one whose balance holds no value
\* is dealt with as one whose balance is 0: no request, and that record.
C30_StrictComparison ==
  \A c \in Calls :
    calls[c].op = SendTransaction =>
      /\ (calls[c].funds = "n/a" <=> calls[c].balance = "n/a")
      /\ (calls[c].funds \in {"eq", "gt"} =>
            /\ calls[c].balance = "known"
            /\ calls[c].requests = 1
            /\ calls[c].sent # NoPayload
            /\ (calls[c].out.kind = "returned" =>
                  /\ calls[c].out.value.valid
                  /\ calls[c].out.value.result = calls[c].reply))
      /\ (calls[c].funds = "lt" \/ calls[c].balance = "absent" =>
            /\ calls[c].requests = 0
            /\ calls[c].sent = NoPayload
            /\ calls[c].out =
                 Returned(Formatted("DEFAULT_EIP155_METHODS.ETH_SEND_TRANSACTION",
                                    calls[c].address, FALSE,
                                    "Insufficient funds for intrinsic transaction cost")))

\* a balance equal to the cost has gone through: the request was sent and
\* its reply published
C30_Witness ==
  \E c \in Calls :
    /\ calls[c].op = SendTransaction
    /\ calls[c].funds = "eq"
    /\ calls[c].pc = "published"
    /\ calls[c].requests = 1
    /\ result.valid
    /\ result.result = Artifact

\* C31 (as stated): getChainMetadata of either module returns the entry of
\* its table for the reference of the chainId when the table has that
\* reference, and throws "No chain metadata found for chainId: ..." for
\* every other chainId, one without reference included; what it returns is
\* never undefined.
C31_EntryOrNoMetadataError ==
  chain.stage = "done" =>
    LET table == IF chain.module = "bch" THEN BchMetadata ELSE XmrMetadata
        listed == Len(chain.chainId) >= 2 /\ chain.chainId[2] \in DOMAIN table
    IN  /\ (listed =>
              /\ chain.out.kind = "returned"
              /\ chain.out.value = table[chain.chainId[2]])
        /\ (~listed =>
              /\ chain.out.kind = "threw"
              /\ chain.out.error.kind = "Error"
              /\ chain.out.error.message =
                   "No chain metadata found for chainId: " \o Unsplit(chain.chainId))
        /\ (chain.out.kind = "returned" => chain.out.value.type # "undefined")

====
